---------------------------- MODULE Spec2Model ----------------------------
(***************************************************************************)
(* Model of andrescaro16/image-thresholding: a 24-bit BMP is read into a   *)
(* pixel matrix, every pixel is thresholded (umbralizar) and the matrix is *)
(* written back.  Three programs share the codec and the kernel and differ *)
(* in how the rows are handed to workers:                                  *)
(*   2_hilos     std::thread workers on the shared matrix, joined, then    *)
(*               one guardarMatrizEnBMP;                                   *)
(*   3_procesos  fork()ed children, each with its own copy of the matrix,  *)
(*               each calling guardarMatrizEnBMP on the same path;         *)
(*   4_openMP    an OpenMP parallel for over the pixels, then one          *)
(*               guardarMatrizEnBMP.                                       *)
(***************************************************************************)
EXTENDS Integers, Sequences, FiniteSets, TLC

VARIABLES
    variante,   \* which program runs: "hilos", "procesos" or "openMP"
    entradaAbre,\* whether ifstream archivo(argv[1]) opens
    entrada,    \* the bytes of the input file
    salidaAbre, \* whether ofstream archivo(argv[2]) can create the file
    salida,     \* the bytes of the output file
    guardados,  \* number of calls of guardarMatrizEnBMP so far
    umbral,     \* unsigned char umbral
    numTrab,    \* numHilos (2_hilos), numProcesos (3_procesos), 0 in 4_openMP
    matriz,     \* vector<vector<Pixel>> matriz of main
    pc,         \* position of main (or of the codec / kernel harness)
    idx,        \* loop variable i of main's creation and join/wait loops
    exitCode,   \* exit status of the program, Corriendo while it runs
    trab,       \* the workers: threads of 2_hilos, children of 3_procesos
    pendientes, \* 4_openMP: iterations (i, j) of the collapsed loop not yet run
    toques,     \* per pixel, the workers that passed it to umbralizar, in order
    fuera,      \* whether a row outside 0..height-1 has been indexed
    pixel,      \* kernel harness: the Pixel handed to umbralizar
    original,   \* kernel harness: that Pixel before the call
    leida       \* codec harness: the matrix read back from salida

varsPrograma ==
    <<variante, entradaAbre, entrada, salidaAbre, guardados, numTrab, idx,
      exitCode, trab, pendientes, toques, fuera>>

vars ==
    <<variante, entradaAbre, entrada, salidaAbre, salida, guardados, umbral,
      numTrab, matriz, pc, idx, exitCode, trab, pendientes, toques, fuera,
      pixel, original, leida>>

Corriendo == -1

\* The program's variables in the harnesses, where no program runs.
SinPrograma ==
    /\ variante = "ninguna"
    /\ entradaAbre = FALSE
    /\ entrada = <<>>
    /\ salidaAbre = TRUE
    /\ guardados = 0
    /\ numTrab = 0
    /\ idx = 0
    /\ exitCode = Corriendo
    /\ trab = <<>>
    /\ pendientes = {}
    /\ toques = <<>>
    /\ fuera = FALSE

(***************************************************************************)
(* Bounds of the model.                                                    *)
(***************************************************************************)
MaxAltoCodec == 3       \* codec harness: heights 1..MaxAltoCodec
MaxAnchoCodec == 5      \* codec harness: widths 1..MaxAnchoCodec
NumSemillas == 3        \* codec harness: sample images per dimension
MaxAlto == 3            \* programs: heights 1..MaxAlto
MaxAncho == 2           \* programs: widths 1..MaxAncho
MaxHilos == 4           \* 2_hilos: 1..MaxHilos threads
MaxProcesos == 2        \* 3_procesos: 1..MaxProcesos children
NumImagenes == 2        \* programs: sample images per dimension
MaxAltoPart == 8        \* partition harness: heights 1..MaxAltoPart
MaxTrabPart == 8        \* partition harness: 1..MaxTrabPart workers

(***************************************************************************)
(* Pixel and the threshold kernel.                                         *)
(***************************************************************************)
Byte == 0..255

Pixel(b, g, r) == [blue |-> b, green |-> g, red |-> r]

\* Conversion of an int to unsigned char.
UChar(n) == n % 256

\* A plausible slip: the sum kept in an unsigned char before the division.
PromedioSumaEnUChar(p) == UChar(UChar(p.red + p.green + p.blue) \div 3)

\* unsigned char promedio = (pixel.red + pixel.green + pixel.blue) / 3;
\* the operands are promoted to int, the quotient is converted back.
Promedio(p) == UChar((p.red + p.green + p.blue) \div 3)

\* umbralizar(Pixel&, unsigned char): the pixel after the call.
Umbralizar(p, u) ==
    IF Promedio(p) < u THEN Pixel(0, 0, 0) ELSE Pixel(255, 255, 255)

(***************************************************************************)
(* Kernel harness: one pixel and one threshold drawn from sample sets,     *)
(* umbralizar applied once.                                                *)
(***************************************************************************)
ValoresCanal == {0, 1, 127, 128, 129, 254, 255}

InitUmbral ==
    /\ pc = "llamar"
    /\ umbral \in Byte
    /\ pixel \in [blue : ValoresCanal, green : ValoresCanal, red : ValoresCanal]
    /\ original = pixel
    /\ matriz = <<>>
    /\ salida = <<>>
    /\ leida = <<>>
    /\ SinPrograma

LlamarUmbralizar ==
    /\ pc = "llamar"
    /\ pixel' = Umbralizar(pixel, umbral)
    /\ pc' = "hecho"
    /\ UNCHANGED <<umbral, original, matriz, salida, leida, varsPrograma>>

NextUmbral == LlamarUmbralizar

SpecUmbral == InitUmbral /\ [][NextUmbral]_vars

(***************************************************************************)
(* Fixed-width integers and their bytes in the file (little endian, as the *)
(* packed BMPHeader is written and read through reinterpret_cast<char*>).  *)
(***************************************************************************)
RECURSIVE Pot256(_)
Pot256(k) == IF k = 0 THEN 1 ELSE 256 * Pot256(k - 1)

\* The k bytes (k <= 4) of the two's complement integer n, low byte first:
\* \div rounds down, so a negative n gives the bytes of n + 256^k.
BytesLE(n, k) == [i \in 1..k |-> (n \div Pot256(i - 1)) % 256]

\* The signed value of the little-endian bytes bs: the last byte carries
\* the sign.
RECURSIVE EnteroLE(_)
EnteroLE(bs) ==
    IF Len(bs) = 1
    THEN (IF Head(bs) >= 128 THEN Head(bs) - 256 ELSE Head(bs))
    ELSE Head(bs) + 256 * EnteroLE(Tail(bs))

\* Conversion of a size_t expression to int (32 bits).
AInt(n) == EnteroLE(BytesLE(n, 4))

\* The byte at offset pos (from 0) of a file; a read at or past the end of
\* the file stores nothing, and the destination keeps its zero
\* initialisation (vector<Pixel>(width) value-initialises every Pixel).
ByteEn(arch, pos) == IF pos >= 0 /\ pos < Len(arch) THEN arch[pos + 1] ELSE 0

Trozo(arch, pos, n) == [i \in 1..n |-> ByteEn(arch, pos + i - 1)]

(***************************************************************************)
(* struct BMPHeader under #pragma pack(push, 1): 54 bytes.                 *)
(***************************************************************************)
TamCabecera == 54       \* sizeof(BMPHeader)

Campos ==
    <<[nombre |-> "signature0", tam |-> 1],
      [nombre |-> "signature1", tam |-> 1],
      [nombre |-> "fileSize", tam |-> 4],
      [nombre |-> "reserved", tam |-> 4],
      [nombre |-> "dataOffset", tam |-> 4],
      [nombre |-> "headerSize", tam |-> 4],
      [nombre |-> "width", tam |-> 4],
      [nombre |-> "height", tam |-> 4],
      [nombre |-> "planes", tam |-> 2],
      [nombre |-> "bitsPerPixel", tam |-> 2],
      [nombre |-> "compression", tam |-> 4],
      [nombre |-> "dataSize", tam |-> 4],
      [nombre |-> "horizontalResolution", tam |-> 4],
      [nombre |-> "verticalResolution", tam |-> 4],
      [nombre |-> "colors", tam |-> 4],
      [nombre |-> "importantColors", tam |-> 4]>>

NombresCampos == {Campos[k].nombre : k \in 1..Len(Campos)}

\* Offset of the k-th field of the packed struct.
RECURSIVE Desplazamiento(_)
Desplazamiento(k) ==
    IF k = 1 THEN 0 ELSE Desplazamiento(k - 1) + Campos[k - 1].tam

IndiceCampo(nombre) == CHOOSE k \in 1..Len(Campos) : Campos[k].nombre = nombre

\* The bytes of a header record, field after field.
RECURSIVE BytesCabeceraDesde(_, _)
BytesCabeceraDesde(h, k) ==
    IF k > Len(Campos) THEN <<>>
    ELSE BytesLE(h[Campos[k].nombre], Campos[k].tam)
             \o BytesCabeceraDesde(h, k + 1)

BytesCabecera(h) == BytesCabeceraDesde(h, 1)

\* archivo.read(reinterpret_cast<char*>(&header), sizeof(BMPHeader))
CabeceraDe(arch) ==
    [n \in NombresCampos |->
        LET k == IndiceCampo(n)
        IN  EnteroLE(Trozo(arch, Desplazamiento(k), Campos[k].tam))]

(***************************************************************************)
(* guardarMatrizEnBMP: the header it builds and the bytes it writes.       *)
(***************************************************************************)
Alto(m) == Len(m)               \* matriz.size()
Ancho(m) == Len(m[1])           \* matriz[0].size()

\* A plausible slip: the standard-looking row alignment dropped.
RellenoNinguno(w) == 0

\* Padding bytes written after each row: matriz[0].size() % 4.
RellenoEscritura(w) == w % 4

\* Padding bytes skipped after each row read: header.width % 4.
RellenoLectura(w) == w % 4

\* fileSize and dataSize as the source computes them ("+2 for padding").
TamDatosCabecera(m) ==
    Alto(m) * ((3 * Ancho(m)) + (Ancho(m) % 4)) + 2

CabeceraGuardada(m) ==
    [signature0 |-> 66,                      \* 'B'
     signature1 |-> 77,                      \* 'M'
     fileSize |-> AInt(TamCabecera + TamDatosCabecera(m)),
     reserved |-> 0,
     dataOffset |-> TamCabecera,
     headerSize |-> 40,
     width |-> AInt(Ancho(m)),
     height |-> AInt(Alto(m)),
     planes |-> 1,
     bitsPerPixel |-> 24,
     compression |-> 0,
     dataSize |-> AInt(TamDatosCabecera(m)),
     horizontalResolution |-> 0,
     verticalResolution |-> 0,
     colors |-> 0,
     importantColors |-> 0]

\* struct Pixel in memory and in the file: blue, green, red.
BytesPixel(p) == <<p.blue, p.green, p.red>>

RECURSIVE BytesPixeles(_)
BytesPixeles(fila) ==
    IF fila = <<>> THEN <<>>
    ELSE BytesPixel(Head(fila)) \o BytesPixeles(Tail(fila))

\* One row as written: its pixels, then the padding bytes of value 0.
BytesFila(fila) ==
    BytesPixeles(fila) \o [k \in 1..RellenoEscritura(Len(fila)) |-> 0]

RECURSIVE BytesFilas(_)
BytesFilas(m) ==
    IF m = <<>> THEN <<>> ELSE BytesFila(Head(m)) \o BytesFilas(Tail(m))

\* Everything guardarMatrizEnBMP writes to a freshly truncated file.
GuardarMatrizEnBMP(m) == BytesCabecera(CabeceraGuardada(m)) \o BytesFilas(m)

(***************************************************************************)
(* leerArchivoBMP: the matrix it returns for a file it accepts.            *)
(***************************************************************************)
\* Offset of pixel (i, j) (from 1) as the read loop reaches it: seekg to
\* dataOffset, 3 bytes per pixel, RellenoLectura(width) skipped per row.
PosPixel(h, i, j) ==
    h.dataOffset + (i - 1) * (3 * h.width + RellenoLectura(h.width))
        + 3 * (j - 1)

PixelEn(arch, pos) ==
    Pixel(ByteEn(arch, pos), ByteEn(arch, pos + 1), ByteEn(arch, pos + 2))

\* A plausible slip: the check of the pixel depth left out.
AceptaCualquiera(arch) == TRUE

\* if (header.bitsPerPixel != 24) { ... exit(1); }
AceptaBMP(arch) == CabeceraDe(arch).bitsPerPixel = 24

LeerArchivoBMP(arch) ==
    LET h == CabeceraDe(arch)
    IN  [i \in 1..h.height |-> [j \in 1..h.width |-> PixelEn(arch, PosPixel(h, i, j))]]

(***************************************************************************)
(* Sample images.                                                          *)
(***************************************************************************)
Muestras ==
    <<Pixel(127, 128, 129), Pixel(126, 127, 128), Pixel(0, 0, 1),
      Pixel(255, 254, 255), Pixel(10, 200, 90), Pixel(200, 100, 250)>>

Gris == Pixel(128, 128, 128)

\* Image number s of h rows and w columns: number 0 is uniformly mid-gray,
\* the others run through Muestras from a different start.
Imagen(h, w, s) ==
    [i \in 1..h |-> [j \in 1..w |->
        IF s = 0 THEN Gris
        ELSE Muestras[((s - 1 + (i - 1) * w + (j - 1)) % Len(Muestras)) + 1]]]

(***************************************************************************)
(* Codec harness: guardarMatrizEnBMP on a sample image, then               *)
(* leerArchivoBMP on the bytes written.                                    *)
(***************************************************************************)
InitCodec ==
    /\ pc = "guardar"
    /\ \E h \in 1..MaxAltoCodec, w \in 1..MaxAnchoCodec, s \in 0..(NumSemillas - 1) :
           matriz = Imagen(h, w, s)
    /\ salida = <<>>
    /\ leida = <<>>
    /\ umbral = 0
    /\ pixel = Pixel(0, 0, 0)
    /\ original = pixel
    /\ SinPrograma

GuardarCodec ==
    /\ pc = "guardar"
    /\ salida' = GuardarMatrizEnBMP(matriz)
    /\ pc' = "leer"
    /\ UNCHANGED <<umbral, pixel, original, matriz, leida, varsPrograma>>

LeerCodec ==
    /\ pc = "leer"
    /\ IF AceptaBMP(salida)
       THEN leida' = LeerArchivoBMP(salida) /\ pc' = "leido"
       ELSE leida' = leida /\ pc' = "exit1"
    /\ UNCHANGED <<umbral, pixel, original, matriz, salida, varsPrograma>>

NextCodec == GuardarCodec \/ LeerCodec

SpecCodec == InitCodec /\ [][NextCodec]_vars

(***************************************************************************)
(* The three programs.                                                     *)
(***************************************************************************)
Variantes == {"hilos", "procesos", "openMP"}

Umbrales == {128, 129}

\* An input file holding image m whose header declares bpp bits per pixel.
\* Every input modelled has its 54 header bytes and all its rows, padded as
\* leerArchivoBMP expects them.
ArchivoEntrada(m, bpp) ==
    BytesCabecera([CabeceraGuardada(m) EXCEPT !.bitsPerPixel = bpp])
        \o BytesFilas(m)

\* A worker that does not exist yet.
SinCrear ==
    [estado |-> "sin crear", inicio |-> 0, fin |-> 0, i |-> 0, j |-> 0,
     mem |-> <<>>, status |-> 0]

\* thread::hardware_concurrency() and sysconf(_SC_NPROCESSORS_ONLN) on a
\* host that reports its processors; 4_openMP keeps no table of workers.
NumTrabDe(v) ==
    CASE v = "hilos" -> 1..MaxHilos
      [] v = "procesos" -> 1..MaxProcesos
      [] OTHER -> {0}

Init ==
    /\ pc = "leer"
    /\ variante \in Variantes
    /\ umbral \in Umbrales
    /\ salidaAbre \in BOOLEAN
    /\ numTrab \in NumTrabDe(variante)
    /\ \/ entradaAbre = FALSE /\ entrada = <<>>
       \/ /\ entradaAbre = TRUE
          /\ \E h \in 1..MaxAlto, w \in 1..MaxAncho, s \in 0..(NumImagenes - 1),
                bpp \in {24, 32} :
                 entrada = ArchivoEntrada(Imagen(h, w, s), bpp)
    /\ salida = <<>>
    /\ guardados = 0
    /\ matriz = <<>>
    /\ idx = 0
    /\ exitCode = Corriendo
    /\ trab = [k \in 0..(numTrab - 1) |-> SinCrear]
    /\ pendientes = {}
    /\ toques = <<>>
    /\ fuera = FALSE
    /\ pixel = Pixel(0, 0, 0)
    /\ original = pixel
    /\ leida = <<>>

harness == <<pixel, original, leida>>

\* matriz[i][j] (rows and columns from 0) passed to umbralizar.
UmbralizarEn(m, i, j, u) ==
    [m EXCEPT ![i + 1][j + 1] = Umbralizar(@, u)]

\* The worker k recorded as having passed pixel (i, j) to umbralizar.
Tocar(t, i, j, k) == [t EXCEPT ![i + 1][j + 1] = Append(@, k)]

(* main up to the return of leerArchivoBMP (all three programs): exit(1)  *)
(* when the input does not open or is not 24 bits per pixel.              *)
Leer ==
    /\ pc = "leer"
    /\ IF ~entradaAbre \/ ~AceptaBMP(entrada)
       THEN /\ exitCode' = 1
            /\ pc' = "fin"
            /\ UNCHANGED <<matriz, toques, pendientes>>
       ELSE /\ matriz' = LeerArchivoBMP(entrada)
            /\ toques' = [i \in 1..Alto(matriz') |-> [j \in 1..Ancho(matriz') |-> <<>>]]
            /\ pendientes' =
                   IF variante = "openMP"
                   THEN (0..(Alto(matriz') - 1)) \X (0..(Ancho(matriz') - 1))
                   ELSE {}
            /\ pc' = CASE variante = "hilos" -> "crear"
                       [] variante = "procesos" -> "fork"
                       [] OTHER -> "paralelo"
            /\ UNCHANGED exitCode
    /\ UNCHANGED <<variante, entradaAbre, entrada, salidaAbre, salida,
                   guardados, umbral, numTrab, idx, trab, fuera, harness>>

(***************************************************************************)
(* The partition of the rows (2_hilos lines 153-156, 3_procesos 131-141).  *)
(***************************************************************************)
\* int tamanoBloque = matriz.size() / numHilos;
TamanoBloque(alto, n) == alto \div n

\* A plausible slip: every block starts at row 0.
InicioCero(k, alto, n) == 0

\* int inicio = i * tamanoBloque;
Inicio(k, alto, n) == k * TamanoBloque(alto, n)

\* A plausible slip: the last worker gets no remainder.
FinSinResto(k, alto, n) == Inicio(k, alto, n) + TamanoBloque(alto, n)

\* A plausible slip: every block runs to the last row.
FinHastaElFinal(k, alto, n) == alto

\* int fin = (i == numHilos - 1) ? matriz.size() : inicio + tamanoBloque;
Fin(k, alto, n) ==
    IF k = n - 1 THEN alto ELSE Inicio(k, alto, n) + TamanoBloque(alto, n)

(***************************************************************************)
(* 2_hilos.                                                                *)
(***************************************************************************)
\* hilos[i] = thread(umbralizarMatriz, ref(matriz), umbral, inicio, fin);
CrearHilo ==
    /\ pc = "crear"
    /\ trab' = [trab EXCEPT ![idx] =
           [SinCrear EXCEPT !.estado = "activo",
                            !.inicio = Inicio(idx, Alto(matriz), numTrab),
                            !.fin = Fin(idx, Alto(matriz), numTrab),
                            !.i = Inicio(idx, Alto(matriz), numTrab)]]
    /\ IF idx + 1 < numTrab
       THEN idx' = idx + 1 /\ pc' = pc
       ELSE idx' = 0 /\ pc' = "join"
    /\ UNCHANGED <<variante, entradaAbre, entrada, salidaAbre, salida,
                   guardados, umbral, numTrab, matriz, exitCode, pendientes,
                   toques, fuera, harness>>

\* One step of umbralizarMatriz in thread k: the loop tests, and one call
\* of umbralizar(matriz[i][j], umbral) when both hold.  Indexing a row that
\* the matrix does not have is undefined; the model records it in fuera
\* and leaves the matrix alone.
HiloPaso(k) ==
    /\ variante = "hilos"
    /\ trab[k].estado = "activo"
    /\ LET w == trab[k]
           sig == IF w.j + 1 < Ancho(matriz)
                  THEN [w EXCEPT !.j = w.j + 1]
                  ELSE [w EXCEPT !.i = w.i + 1, !.j = 0]
       IN  IF w.i >= w.fin
           THEN /\ trab' = [trab EXCEPT ![k].estado = "terminado"]
                /\ UNCHANGED <<matriz, toques, fuera>>
           ELSE IF w.i < 0 \/ w.i >= Alto(matriz)
           THEN /\ fuera' = TRUE
                /\ trab' = [trab EXCEPT ![k] = sig]
                /\ UNCHANGED <<matriz, toques>>
           ELSE /\ matriz' = UmbralizarEn(matriz, w.i, w.j, umbral)
                /\ toques' = Tocar(toques, w.i, w.j, k)
                /\ trab' = [trab EXCEPT ![k] = sig]
                /\ UNCHANGED fuera
    /\ UNCHANGED <<variante, entradaAbre, entrada, salidaAbre, salida,
                   guardados, umbral, numTrab, pc, idx, exitCode, pendientes,
                   harness>>

\* A plausible slip: the join loop left out, main goes on at once.
SinEsperar(k) == TRUE

\* hilo.join() (2_hilos) and waitpid(pids[i], &status, 0) (3_procesos)
\* return once worker k has ended.
HaTerminado(k) == trab[k].estado = "terminado"

\* for (auto& hilo : hilos) hilo.join();
Join ==
    /\ pc = "join"
    /\ HaTerminado(idx)
    /\ IF idx + 1 < numTrab
       THEN idx' = idx + 1 /\ pc' = pc
       ELSE idx' = 0 /\ pc' = "guardar"
    /\ UNCHANGED <<variante, entradaAbre, entrada, salidaAbre, salida,
                   guardados, umbral, numTrab, matriz, exitCode, trab,
                   pendientes, toques, fuera, harness>>

\* guardarMatrizEnBMP(nombreArchivoEscrituraBMP, matriz); return 0;
\* in main of 2_hilos and 4_openMP: exit(1) when the file cannot be
\* created.  Nothing else runs while main writes, so the call is one step.
Guardar ==
    /\ pc = "guardar"
    /\ guardados' = guardados + 1
    /\ IF salidaAbre
       THEN salida' = GuardarMatrizEnBMP(matriz) /\ exitCode' = 0
       ELSE salida' = salida /\ exitCode' = 1
    /\ pc' = "fin"
    /\ UNCHANGED <<variante, entradaAbre, entrada, salidaAbre, umbral,
                   numTrab, matriz, idx, trab, pendientes, toques, fuera,
                   harness>>

(***************************************************************************)
(* 4_openMP.                                                               *)
(***************************************************************************)
\* #pragma omp parallel for collapse(2): every iteration (i, j) runs once,
\* on some thread of the team, in an order the schedule decides.
OmpIteracion ==
    /\ pc = "paralelo"
    /\ \E it \in pendientes :
          /\ matriz' = UmbralizarEn(matriz, it[1], it[2], umbral)
          /\ pendientes' = pendientes \ {it}
    /\ UNCHANGED <<variante, entradaAbre, entrada, salidaAbre, salida,
                   guardados, umbral, numTrab, pc, idx, exitCode, trab,
                   toques, fuera, harness>>

\* The implicit barrier that ends the parallel loop.
OmpBarrera ==
    /\ pc = "paralelo"
    /\ pendientes = {}
    /\ pc' = "guardar"
    /\ UNCHANGED <<variante, entradaAbre, entrada, salidaAbre, salida,
                   guardados, umbral, numTrab, matriz, idx, exitCode, trab,
                   pendientes, toques, fuera, harness>>

(***************************************************************************)
(* 3_procesos.                                                             *)
(***************************************************************************)
\* The rows inicio..fin-1 (from 0) of the child's own copy thresholded.
UmbralizarFilas(m, u, inicio, fin) ==
    [r \in 1..Len(m) |->
        IF inicio <= r - 1 /\ r - 1 < fin
        THEN [j \in 1..Len(m[r]) |-> Umbralizar(m[r][j], u)]
        ELSE m[r]]

\* pid_t pid = fork(): the child starts with a copy of the parent's memory.
Fork ==
    /\ pc = "fork"
    /\ trab' = [trab EXCEPT ![idx] =
           [SinCrear EXCEPT !.estado = "umbralizando",
                            !.inicio = Inicio(idx, Alto(matriz), numTrab),
                            !.fin = Fin(idx, Alto(matriz), numTrab),
                            !.mem = matriz]]
    /\ IF idx + 1 < numTrab
       THEN idx' = idx + 1 /\ pc' = pc
       ELSE idx' = 0 /\ pc' = "waitpid"
    /\ UNCHANGED <<variante, entradaAbre, entrada, salidaAbre, salida,
                   guardados, umbral, numTrab, matriz, exitCode, pendientes,
                   toques, fuera, harness>>

\* fork() returned -1 in the parent: exit(1).  Children already created
\* run on.
ForkFalla ==
    /\ pc = "fork"
    /\ exitCode' = 1
    /\ pc' = "fin"
    /\ UNCHANGED <<variante, entradaAbre, entrada, salidaAbre, salida,
                   guardados, umbral, numTrab, matriz, idx, trab, pendientes,
                   toques, fuera, harness>>

\* The child's loops over its rows, on its own copy of matriz.
HijoUmbraliza(k) ==
    /\ variante = "procesos"
    /\ trab[k].estado = "umbralizando"
    /\ trab' = [trab EXCEPT
           ![k].mem = UmbralizarFilas(@, umbral, trab[k].inicio, trab[k].fin),
           ![k].estado = "abrir"]
    /\ UNCHANGED <<variante, entradaAbre, entrada, salidaAbre, salida,
                   guardados, umbral, numTrab, matriz, pc, idx, exitCode,
                   pendientes, toques, fuera, harness>>

\* The child enters guardarMatrizEnBMP: ofstream archivo(...) truncates the
\* file, or fails and the child calls exit(1).
HijoAbre(k) ==
    /\ variante = "procesos"
    /\ trab[k].estado = "abrir"
    /\ guardados' = guardados + 1
    /\ IF salidaAbre
       THEN /\ salida' = <<>>
            /\ trab' = [trab EXCEPT ![k].estado = "escribiendo", ![k].i = -1]
       ELSE /\ salida' = salida
            /\ trab' = [trab EXCEPT ![k].estado = "terminado", ![k].status = 1]
    /\ UNCHANGED <<variante, entradaAbre, entrada, salidaAbre, umbral,
                   numTrab, matriz, pc, idx, exitCode, pendientes, toques,
                   fuera, harness>>

\* The file after bs is written at offset pos (from 0): a gap between the
\* old end of the file and pos reads as zeros.
EscribirEn(arch, pos, bs) ==
    LET n == IF Len(arch) > pos + Len(bs) THEN Len(arch) ELSE pos + Len(bs)
    IN  [q \in 1..n |->
            IF pos < q /\ q <= pos + Len(bs) THEN bs[q - pos]
            ELSE ByteEn(arch, q - 1)]

\* Offset in the file of row i (from 0) of matrix m as the child writes it.
PosFila(m, i) == TamCabecera + i * Len(BytesFila(m[1]))

\* The child's stream reaches the file through its own file position: the
\* header first (i = -1), then row after row; after the last row the child
\* closes the file and calls exit(0).
HijoEscribe(k) ==
    /\ variante = "procesos"
    /\ trab[k].estado = "escribiendo"
    /\ LET w == trab[k]
       IN  IF w.i = -1
           THEN /\ salida' = EscribirEn(salida, 0,
                                 BytesCabecera(CabeceraGuardada(w.mem)))
                /\ trab' = [trab EXCEPT ![k].i = 0]
           ELSE /\ salida' = EscribirEn(salida, PosFila(w.mem, w.i),
                                 BytesFila(w.mem[w.i + 1]))
                /\ trab' = IF w.i + 1 < Alto(w.mem)
                           THEN [trab EXCEPT ![k].i = w.i + 1]
                           ELSE [trab EXCEPT ![k].estado = "terminado",
                                             ![k].status = 0]
    /\ UNCHANGED <<variante, entradaAbre, entrada, salidaAbre, guardados,
                   umbral, numTrab, matriz, pc, idx, exitCode, pendientes,
                   toques, fuera, harness>>

\* waitpid(pids[i], &status, 0) for each child, status never looked at;
\* return 0.
Waitpid ==
    /\ pc = "waitpid"
    /\ HaTerminado(idx)
    /\ IF idx + 1 < numTrab
       THEN idx' = idx + 1 /\ pc' = pc /\ exitCode' = exitCode
       ELSE idx' = 0 /\ pc' = "fin" /\ exitCode' = 0
    /\ UNCHANGED <<variante, entradaAbre, entrada, salidaAbre, salida,
                   guardados, umbral, numTrab, matriz, trab, pendientes,
                   toques, fuera, harness>>

Trabajadores == DOMAIN trab

Next ==
    \/ Leer
    \/ CrearHilo
    \/ \E k \in Trabajadores : HiloPaso(k)
    \/ Join
    \/ Guardar
    \/ OmpIteracion
    \/ OmpBarrera
    \/ Fork
    \/ ForkFalla
    \/ \E k \in Trabajadores : HijoUmbraliza(k)
    \/ \E k \in Trabajadores : HijoAbre(k)
    \/ \E k \in Trabajadores : HijoEscribe(k)
    \/ Waitpid

Spec == Init /\ [][Next]_vars

(***************************************************************************)
(* Partition harness: the creation loop of main with its arithmetic only   *)
(* (inicio and fin of every worker), for more heights and worker counts    *)
(* than the programs above are run with.                                   *)
(***************************************************************************)
InitParticion ==
    /\ pc = "repartir"
    /\ \E h \in 1..MaxAltoPart : matriz = Imagen(h, 1, 0)
    /\ numTrab \in 1..MaxTrabPart
    /\ trab = [k \in 0..(numTrab - 1) |-> SinCrear]
    /\ idx = 0
    /\ variante = "ninguna"
    /\ entradaAbre = FALSE
    /\ entrada = <<>>
    /\ salidaAbre = TRUE
    /\ salida = <<>>
    /\ guardados = 0
    /\ umbral = 0
    /\ exitCode = Corriendo
    /\ pendientes = {}
    /\ toques = <<>>
    /\ fuera = FALSE
    /\ pixel = Pixel(0, 0, 0)
    /\ original = pixel
    /\ leida = <<>>

Repartir ==
    /\ pc = "repartir"
    /\ trab' = [trab EXCEPT ![idx] =
           [SinCrear EXCEPT !.estado = "repartido",
                            !.inicio = Inicio(idx, Alto(matriz), numTrab),
                            !.fin = Fin(idx, Alto(matriz), numTrab)]]
    /\ IF idx + 1 < numTrab
       THEN idx' = idx + 1 /\ pc' = pc
       ELSE idx' = 0 /\ pc' = "repartido"
    /\ UNCHANGED <<variante, entradaAbre, entrada, salidaAbre, salida,
                   guardados, umbral, numTrab, matriz, exitCode, pendientes,
                   toques, fuera, harness>>

NextParticion == Repartir

SpecParticion == InitParticion /\ [][NextParticion]_vars

(***************************************************************************)
(* Properties.                                                             *)
(***************************************************************************)
Blanco == Pixel(255, 255, 255)
Negro == Pixel(0, 0, 0)

\* The average of the three channels on the sum as an integer (0..765).
PromedioEntero(p) == (p.red + p.green + p.blue) \div 3

\* The matrix the input file holds, and that matrix with every pixel
\* thresholded once.
MatrizEntrada == LeerArchivoBMP(entrada)

Umbralizada(m, u) ==
    [i \in 1..Len(m) |-> [j \in 1..Len(m[i]) |-> Umbralizar(m[i][j], u)]]

Filas == 1..Alto(matriz)
Columnas == 1..Ancho(matriz)

EntradaBuena == entradaAbre /\ CabeceraDe(entrada).bitsPerPixel = 24

TodosTerminados == \A k \in Trabajadores : trab[k].estado = "terminado"

\* C1: after umbralizar every channel is 255 when the integer average of
\* the pixel's channels is at least the threshold and 0 when it is below:
\* no channel holds anything else, average = threshold gives 255.
C1_UmbralizarPorPromedio ==
    pc = "hecho" =>
        /\ PromedioEntero(original) >= umbral => pixel = Blanco
        /\ PromedioEntero(original) < umbral => pixel = Negro
        /\ {pixel.blue, pixel.green, pixel.red} \in {{0}, {255}}

\* C1 witness: a pixel whose channel sum exceeds 255 and whose average
\* equals the threshold has become white.
C1_Testigo ==
    /\ pc = "hecho"
    /\ original = Pixel(254, 255, 255)
    /\ umbral = 254
    /\ pixel = Blanco

\* C2: in 3_procesos, once the parent has waited for every child and
\* returned 0, the output file holds the input image with every pixel
\* thresholded.
C2_ProcesosArchivoUmbralizado ==
    (variante = "procesos" /\ pc = "fin" /\ exitCode = 0 /\ salidaAbre) =>
        /\ AceptaBMP(salida)
        /\ LeerArchivoBMP(salida) = Umbralizada(MatrizEntrada, umbral)

\* C3: in 2_hilos guardarMatrizEnBMP is called at most once, only when
\* every thread has ended, and exactly once in a run that got past
\* leerArchivoBMP and has ended.
C3_GuardarTrasLosJoin ==
    variante = "hilos" =>
        /\ guardados <= 1
        /\ (pc = "guardar" \/ guardados >= 1) => TodosTerminados
        /\ (pc = "fin" /\ EntradaBuena) => guardados = 1

\* C3 witness: a run of three threads has ended, with one call of the
\* writer, made after all three threads ended.
C3_Testigo ==
    /\ variante = "hilos"
    /\ pc = "fin"
    /\ numTrab = 3
    /\ guardados = 1
    /\ exitCode = 0
    /\ TodosTerminados

\* The rows [inicio, fin) of worker k.
RangoDe(k) == trab[k].inicio..(trab[k].fin - 1)

\* C4: with 1 <= W <= height, once every worker has its range, every row
\* 0..height-1 is in the range of exactly one worker and every range lies
\* within 0..height.
C4_ParticionCubre ==
    (pc = "repartido" /\ numTrab <= Alto(matriz)) =>
        /\ \A r \in 0..(Alto(matriz) - 1) :
               Cardinality({k \in Trabajadores : r \in RangoDe(k)}) = 1
        /\ \A k \in Trabajadores :
               /\ 0 <= trab[k].inicio
               /\ trab[k].inicio <= trab[k].fin
               /\ trab[k].fin <= Alto(matriz)

\* C4 witness: 7 rows among 3 workers, the last one taking the remainder.
C4_Testigo ==
    /\ pc = "repartido"
    /\ Alto(matriz) = 7
    /\ numTrab = 3
    /\ RangoDe(0) = {0, 1}
    /\ RangoDe(1) = {2, 3}
    /\ RangoDe(2) = {4, 5, 6}

\* The workers that passed pixel (i, j) to umbralizar.
Autores(i, j) == {toques[i][j][n] : n \in 1..Len(toques[i][j])}

\* C5: in 2_hilos no pixel is ever passed to umbralizar twice (so never by
\* two workers), and when main reaches the writer every pixel has been
\* passed exactly once and the matrix is the input matrix thresholded.
C5_HilosUnaVezCadaPixel ==
    (variante = "hilos" /\ pc # "leer" /\ EntradaBuena) =>
        /\ \A i \in Filas, j \in Columnas :
               Len(toques[i][j]) <= 1 /\ Cardinality(Autores(i, j)) <= 1
        /\ pc \in {"guardar", "fin"} =>
               /\ \A i \in Filas, j \in Columnas : Len(toques[i][j]) = 1
               /\ matriz = Umbralizada(MatrizEntrada, umbral)

\* C5 witness: two threads have thresholded a 3x2 image that has pixels on
\* both sides of the threshold, and main is about to write it.
C5_Testigo ==
    /\ variante = "hilos"
    /\ pc = "guardar"
    /\ numTrab = 2
    /\ Alto(matriz) = 3
    /\ Ancho(matriz) = 2
    /\ matriz[1][1] = Blanco
    /\ matriz[1][2] = Negro
    /\ Autores(1, 1) = {0}
    /\ Autores(3, 2) = {1}

\* C6: what leerArchivoBMP reads from the bytes guardarMatrizEnBMP wrote
\* for a matrix is accepted and is that matrix: same height, same width,
\* same pixels.
C6_IdaYVuelta ==
    /\ pc # "exit1"
    /\ pc = "leido" =>
           /\ Alto(leida) = Alto(matriz)
           /\ Ancho(leida) = Ancho(matriz)
           /\ leida = matriz

\* C6 witness: a 3-row image of width 5 (one padding byte per row) has
\* been written and read back.
C6_Testigo ==
    /\ pc = "leido"
    /\ Alto(matriz) = 3
    /\ Ancho(matriz) = 5
    /\ matriz[1][1] # matriz[2][1]
    /\ leida = matriz

\* C7: a run whose output file cannot be created ends with exit code 1.
C7_SalidaNoCreadaSaleConUno ==
    (pc = "fin" /\ ~salidaAbre) => exitCode = 1

\* C8: when the input does not open or is not 24 bits per pixel, the
\* program ends with exit code 1, no thread, child or parallel loop is
\* ever started and the output file is never opened or written.
C8_EntradaMalaNoArranca ==
    (~entradaAbre \/ CabeceraDe(entrada).bitsPerPixel # 24) =>
        /\ pc \in {"leer", "fin"}
        /\ pc = "fin" => exitCode = 1
        /\ \A k \in Trabajadores : trab[k].estado = "sin crear"
        /\ pendientes = {}
        /\ guardados = 0
        /\ salida = <<>>

\* C8 witness: 3_procesos has ended with exit code 1 on an input that
\* opens and declares 32 bits per pixel.
C8_Testigo ==
    /\ pc = "fin"
    /\ variante = "procesos"
    /\ entradaAbre
    /\ CabeceraDe(entrada).bitsPerPixel = 32
    /\ exitCode = 1
    /\ guardados = 0

\* C9: the fileSize field of the header written equals the number of
\* bytes written, and the dataSize field the number written after the
\* header.
C9_TamanosDeCabecera ==
    pc = "leer" =>
        /\ CabeceraDe(salida).fileSize = Len(salida)
        /\ CabeceraDe(salida).dataSize = Len(salida) - TamCabecera

\* C10: in 2_hilos with more threads than rows, the threads 0..W-2 get
\* empty ranges and touch no pixel, the last thread gets rows 0..height-1,
\* no row outside 0..height-1 is indexed, and when main reaches the writer
\* every pixel has been thresholded once, by the last thread.
C10_MasHilosQueFilas ==
    (variante = "hilos" /\ pc # "leer" /\ EntradaBuena
         /\ numTrab > Alto(matriz)) =>
        /\ ~fuera
        /\ \A k \in Trabajadores : trab[k].estado # "sin crear" =>
               IF k < numTrab - 1
               THEN trab[k].inicio = trab[k].fin
               ELSE trab[k].inicio = 0 /\ trab[k].fin = Alto(matriz)
        /\ \A i \in Filas, j \in Columnas : Autores(i, j) \subseteq {numTrab - 1}
        /\ pc \in {"guardar", "fin"} =>
               /\ \A i \in Filas, j \in Columnas : toques[i][j] = <<numTrab - 1>>
               /\ matriz = Umbralizada(MatrizEntrada, umbral)

\* C10 witness: three threads on a 2-row image, main about to write, every
\* pixel thresholded by thread 2.
C10_Testigo ==
    /\ variante = "hilos"
    /\ pc = "guardar"
    /\ numTrab = 3
    /\ Alto(matriz) = 2
    /\ trab[0].inicio = 0 /\ trab[0].fin = 0
    /\ trab[1].inicio = 0 /\ trab[1].fin = 0
    /\ \A i \in Filas, j \in Columnas : toques[i][j] = <<2>>

=============================================================================
